---- MODULE Spec2Model ----
(***************************************************************************)
(* Canvas Hotkey Helper (src/main.js): the "create group from selection"   *)
(* command, its geometry helpers and the settings that feed it.            *)
(*                                                                         *)
(* JavaScript values are tagged records [t, v]:                            *)
(*   t = "number"    a finite number v (|v| <= MaxNum)                     *)
(*   t = "Infinity"  +Infinity (v = 1) or -Infinity (v = -1)               *)
(*   t = "NaN"       NaN                                                   *)
(*   t = "string"    the numeric string whose digits spell v               *)
(*   t = "words"     a string that spells no number                        *)
(*   t = "undefined" / "null"                                              *)
(* MaxNum stands for Number.MAX_VALUE: a finite result beyond it is        *)
(* +-Infinity, as IEEE-754 overflow makes it.                              *)
(***************************************************************************)
EXTENDS Integers, Sequences, FiniteSets

\* ---------------------------------------------------------------- bounds
MaxNum == 1000
MaxSel == 3
MaxNodes == 3

\* ------------------------------------------------------ JavaScript values
Num(n) == [t |-> "number", v |-> n]
NaN == [t |-> "NaN", v |-> 0]
PosInf == [t |-> "Infinity", v |-> 1]
NegInf == [t |-> "Infinity", v |-> -1]
Undefined == [t |-> "undefined", v |-> 0]
Null == [t |-> "null", v |-> 0]
Str(n) == [t |-> "string", v |-> n]
Words == [t |-> "words", v |-> 0]

\* a mathematical result as a Number: overflow gives +-Infinity
Norm(n) ==
    IF n > MaxNum THEN PosInf ELSE IF n < -MaxNum THEN NegInf ELSE Num(n)

\* typeof a === 'number'
TypeofNumber(a) == a.t \in {"number", "NaN", "Infinity"}

\* the ToNumber coercion the arithmetic and relational operators apply
ToNumber(a) ==
    CASE a.t \in {"undefined", "words"} -> NaN
      [] a.t = "null" -> Num(0)
      [] a.t = "string" -> Norm(a.v)
      [] OTHER -> a

\* the global isFinite(a)
isFinite(a) == ToNumber(a).t = "number"

\* the global isNaN(a)
isNaN(a) == ToNumber(a).t = "NaN"

\* a + b on numbers
Add(a, b) ==
    LET x == ToNumber(a)
        y == ToNumber(b)
    IN  CASE x.t = "NaN" \/ y.t = "NaN" -> NaN
          [] x.t = "Infinity" /\ y.t = "Infinity" -> IF x.v = y.v THEN x ELSE NaN
          [] x.t = "Infinity" -> x
          [] y.t = "Infinity" -> y
          [] OTHER -> Norm(x.v + y.v)

\* -a
Neg(a) ==
    LET x == ToNumber(a)
    IN  IF x.t = "NaN" THEN NaN ELSE [x EXCEPT !.v = -x.v]

\* a - b
Sub(a, b) == Add(a, Neg(b))

\* a * 2
Times2(a) ==
    LET x == ToNumber(a)
    IN  IF x.t = "number" THEN Norm(2 * x.v) ELSE x

\* a < b
Lt(a, b) ==
    LET x == ToNumber(a)
        y == ToNumber(b)
    IN  CASE x.t = "NaN" \/ y.t = "NaN" -> FALSE
          [] x.t = "Infinity" /\ y.t = "Infinity" -> x.v < y.v
          [] x.t = "Infinity" -> x.v < 0
          [] y.t = "Infinity" -> y.v > 0
          [] OTHER -> x.v < y.v

\* a > b, a <= b, a >= b
Gt(a, b) == Lt(b, a)
Le(a, b) == ~isNaN(a) /\ ~isNaN(b) /\ ~Lt(b, a)
Ge(a, b) == Le(b, a)

\* Math.min(...s) and Math.max(...s): NaN if any argument is NaN
RECURSIVE MathMin(_)
MathMin(s) ==
    IF s = <<>> THEN PosInf
    ELSE LET h == ToNumber(Head(s))
             r == MathMin(Tail(s))
         IN  IF h.t = "NaN" \/ r.t = "NaN" THEN NaN
             ELSE IF Lt(h, r) THEN h ELSE r

RECURSIVE MathMax(_)
MathMax(s) ==
    IF s = <<>> THEN NegInf
    ELSE LET h == ToNumber(Head(s))
             r == MathMax(Tail(s))
         IN  IF h.t = "NaN" \/ r.t = "NaN" THEN NaN
             ELSE IF Lt(r, h) THEN h ELSE r

\* ------------------------------------------------------------------ nodes
Node(x, y, w, h) == [isNull |-> FALSE, x |-> x, y |-> y, width |-> w, height |-> h]
NullNode ==
    [isNull |-> TRUE, x |-> Undefined, y |-> Undefined,
     width |-> Undefined, height |-> Undefined]

isValidNode(node) ==
    /\ ~node.isNull
    /\ TypeofNumber(node.x) /\ TypeofNumber(node.y)
    /\ TypeofNumber(node.width) /\ TypeofNumber(node.height)
    /\ Gt(node.width, Num(0)) /\ Gt(node.height, Num(0))

NoBox == [isNull |-> TRUE, minX |-> NaN, minY |-> NaN, maxX |-> NaN, maxY |-> NaN]
Box(a, b, c, d) == [isNull |-> FALSE, minX |-> a, minY |-> b, maxX |-> c, maxY |-> d]

NodeX(n) == n.x
NodeY(n) == n.y
\* a slip: the right edge taken for the width alone
NodeRightNoX(n) == n.width
NodeRight(n) == Add(n.x, n.width)
NodeBottom(n) == Add(n.y, n.height)

\* validNodes.map(n => n.x) and the three other maps of lines 134-137
Xs(nodes) == [i \in 1..Len(nodes) |-> NodeX(nodes[i])]
Ys(nodes) == [i \in 1..Len(nodes) |-> NodeY(nodes[i])]
Rights(nodes) == [i \in 1..Len(nodes) |-> NodeRight(nodes[i])]
Bottoms(nodes) == [i \in 1..Len(nodes) |-> NodeBottom(nodes[i])]

\* a slip: the bounds returned without the isFinite test of line 140
BoundsOfUnchecked(validNodes) ==
    Box(MathMin(Xs(validNodes)), MathMin(Ys(validNodes)),
        MathMax(Rights(validNodes)), MathMax(Bottoms(validNodes)))

\* the bounds of a non-empty array of nodes (lines 134-144)
BoundsOf(validNodes) ==
    LET minX == MathMin(Xs(validNodes))
        minY == MathMin(Ys(validNodes))
        maxX == MathMax(Rights(validNodes))
        maxY == MathMax(Bottoms(validNodes))
    IN  IF ~isFinite(minX) \/ ~isFinite(minY) \/ ~isFinite(maxX) \/ ~isFinite(maxY)
        THEN NoBox
        ELSE Box(minX, minY, maxX, maxY)

\* hasNodes = FALSE is the argument null or undefined
calculateBoundingBox(hasNodes, nodes) ==
    IF ~hasNodes \/ Len(nodes) = 0 THEN NoBox
    ELSE LET validNodes == SelectSeq(nodes, isValidNode)
         IN  IF Len(validNodes) = 0 THEN NoBox ELSE BoundsOf(validNodes)

\* --------------------------------------------------------------- settings
DefaultPadding == 20

DEFAULT_SETTINGS ==
    [padding |-> Num(DefaultPadding), defaultLabel |-> "",
     showNotices |-> TRUE, debugMode |-> FALSE]

\* data.json: nothing saved yet (loadData() gives null), or an object with
\* the keys it holds
SettingKeys == {"padding", "defaultLabel", "showNotices", "debugMode"}
NoData == [saved |-> FALSE, keys |-> {}, obj |-> DEFAULT_SETTINGS]

\* JSON.stringify then JSON.parse of a number: NaN and +-Infinity become null
JsonNumber(a) == IF a.t \in {"NaN", "Infinity"} THEN Null ELSE a

\* saveData(this.settings): the whole settings object, as JSON keeps it
saveData(obj) ==
    [saved |-> TRUE, keys |-> SettingKeys,
     obj |-> [obj EXCEPT !.padding = JsonNumber(obj.padding)]]

\* Object.assign({}, DEFAULT_SETTINGS, await this.loadData()): every key the
\* stored object has replaces the default, whatever its value
loadSettings(stored) ==
    [padding |->
        IF stored.saved /\ "padding" \in stored.keys
        THEN stored.obj.padding ELSE DEFAULT_SETTINGS.padding,
     defaultLabel |->
        IF stored.saved /\ "defaultLabel" \in stored.keys
        THEN stored.obj.defaultLabel ELSE DEFAULT_SETTINGS.defaultLabel,
     showNotices |->
        IF stored.saved /\ "showNotices" \in stored.keys
        THEN stored.obj.showNotices ELSE DEFAULT_SETTINGS.showNotices,
     debugMode |->
        IF stored.saved /\ "debugMode" \in stored.keys
        THEN stored.obj.debugMode ELSE DEFAULT_SETTINGS.debugMode]

\* the text of the padding field: an optional sign, digits spelling num (or
\* none: digits = FALSE), and whatever follows them
Text(neg, digits, num) == [neg |-> neg, digits |-> digits, num |-> num]

\* parseInt(value): NaN without leading digits, else the integer they spell,
\* as a Number
parseInt(value) ==
    IF ~value.digits THEN NaN
    ELSE Norm(IF value.neg THEN -value.num ELSE value.num)

\* the padding field's onChange, lines 309-315: the settings after it
onChangePadding(cur, value) ==
    LET numValue == parseInt(value)
    IN  IF ~isNaN(numValue) /\ Ge(numValue, Num(0))
        THEN [changed |-> TRUE, settings |-> [cur EXCEPT !.padding = numValue]]
        ELSE [changed |-> FALSE, settings |-> cur]

\* ----------------------------------------------------- notices and console
Msg(text) == [text |-> text, n |-> 0, detail |-> ""]
MsgN(text, n) == [text |-> text, n |-> n, detail |-> ""]
NoRect ==
    [x |-> Undefined, y |-> Undefined, width |-> Undefined,
     height |-> Undefined, label |-> ""]
Ev(op, msg) == [op |-> op, msg |-> msg, rect |-> NoRect]
EvRect(op, rect) == [op |-> op, msg |-> Msg(""), rect |-> rect]

\* a slip: the Notice made whatever showNotices says
showNoticeUngated(cur, message) ==
    <<Ev("showNotice", message), Ev("Notice", message)>>

\* showNotice(message): the call, and the Notice it makes if notices are on
showNotice(cur, message) ==
    <<Ev("showNotice", message)>>
        \o (IF cur.showNotices THEN <<Ev("Notice", message)>> ELSE <<>>)

\* log(message): console.log in debug mode
log(cur, message) ==
    IF cur.debugMode THEN <<Ev("console.log", message)>> ELSE <<>>

\* what a try block did: the events, the value thrown ("none": it completed)
\* and the return point reached
Res(ev, ex, outcome) == [ev |-> ev, ex |-> ex, outcome |-> outcome]

\* the message of a thrown value; a thrown null or undefined has none, and
\* reading it is a TypeError
HasMessage(error) == error \in {"Error", "TypeError"}
MessageOf(error) ==
    IF error = "TypeError" THEN "Cannot read properties of null (reading 'message')"
    ELSE "host failure"

\* handleError(context, error), lines 280-284
handleError(cur, context, error) ==
    IF ~HasMessage(error) THEN Res(<<>>, "TypeError", "Fault")
    ELSE LET errorMessage == [text |-> context, n |-> 0, detail |-> MessageOf(error)]
         IN  Res(<<Ev("console.error", errorMessage)>> \o showNotice(cur, errorMessage),
                 "none", "Fault")

\* ------------------------------------------------------------ the command
\* a canvas view as the command sees it: kind "null" (no view), "noCanvas"
\* (view.canvas missing), "noApi" (canvas.createGroupNode is no function),
\* "noSelection" (canvas.selection missing) or "ok"; selection is
\* Array.from(canvas.selection), its length the Set's size
View(kind, hasRequestSave, selection) ==
    [kind |-> kind, hasRequestSave |-> hasRequestSave, selection |-> selection]
NullView == View("null", FALSE, <<>>)

\* a workspace leaf: one without a view, or one holding a view
NoViewLeaf == [hasView |-> FALSE, view |-> NullView]
Leaf(v) == [hasView |-> TRUE, view |-> v]
LeafHasView(leaf) == leaf.hasView

\* getActiveCanvasView(), lines 73-93: the first leaf with a view
getActiveCanvasView(canvasLeaves) ==
    IF Len(canvasLeaves) = 0 THEN NullView
    ELSE LET withView == SelectSeq(canvasLeaves, LeafHasView)
         IN  IF Len(withView) = 0 THEN NullView ELSE Head(withView).view

\* lines 219-220 and 229-239: the rectangle handed to createGroupNode
GroupRect(bounds, padding, label) ==
    [x |-> Sub(bounds.minX, padding),
     y |-> Sub(bounds.minY, padding),
     width |-> Add(Sub(bounds.maxX, bounds.minX), Times2(padding)),
     height |-> Add(Sub(bounds.maxY, bounds.minY), Times2(padding)),
     label |-> label]

\* a slip: the save requested before the group is created
CreateAndSaveSwapped(view, cur, n, rect, createFault, saveFault, ev) ==
    LET ev1 == IF view.hasRequestSave THEN ev \o <<Ev("requestSave", Msg(""))>> ELSE ev
        ev2 == ev1 \o <<EvRect("createGroupNode", rect)>>
    IN  IF view.hasRequestSave /\ saveFault # "none" THEN Res(ev1, saveFault, "Fault")
        ELSE IF createFault # "none" THEN Res(ev2, createFault, "Fault")
        ELSE Res(ev2 \o showNotice(cur, MsgN("Group created with ${n} node(s)", n))
                     \o log(cur, MsgN("Successfully created group with ${n} nodes", n)),
                 "none", "Success")

\* lines 228-247: create the group, request the save, report. createFault and
\* saveFault are what the host's createGroupNode and requestSave throw
\* ("none": they return)
CreateAndSave(view, cur, n, rect, createFault, saveFault, ev) ==
    LET ev1 == ev \o <<EvRect("createGroupNode", rect)>>
        ev2 == IF view.hasRequestSave THEN ev1 \o <<Ev("requestSave", Msg(""))>> ELSE ev1
    IN  IF createFault # "none" THEN Res(ev1, createFault, "Fault")
        ELSE IF view.hasRequestSave /\ saveFault # "none" THEN Res(ev2, saveFault, "Fault")
        ELSE Res(ev2 \o showNotice(cur, MsgN("Group created with ${n} node(s)", n))
                     \o log(cur, MsgN("Successfully created group with ${n} nodes", n)),
                 "none", "Success")

\* lines 194-226: validate the nodes, compute the bounds and the dimensions
Geometry(view, cur, createFault, saveFault) ==
    LET nodes == view.selection
        validNodes == SelectSeq(nodes, isValidNode)
        ev1 == <<Ev("filter isValidNode", Msg(""))>>
        bounds == calculateBoundingBox(TRUE, validNodes)
        ev2 == ev1 \o <<Ev("calculateBoundingBox", Msg(""))>>
        rect == GroupRect(bounds, cur.padding, cur.defaultLabel)
    IN  IF Len(validNodes) = 0
        THEN Res(ev1 \o showNotice(cur, Msg("Selected items are not valid canvas nodes")),
                 "none", "NoValidNodes")
        ELSE IF Len(validNodes) < 2
        THEN Res(ev1 \o showNotice(cur,
                     MsgN("Only ${n} valid node(s) selected. Need at least 2.",
                          Len(validNodes))),
                 "none", "NoValidNodes")
        ELSE IF bounds.isNull
        THEN Res(ev2 \o showNotice(cur, Msg("Unable to calculate bounds for selected nodes")),
                 "none", "BoundsUnavailable")
        ELSE IF Le(rect.width, Num(0)) \/ Le(rect.height, Num(0))
        THEN Res(ev2 \o showNotice(cur, Msg("Invalid group dimensions calculated")),
                 "none", "InvalidDimensions")
        ELSE CreateAndSave(view, cur, Len(validNodes), rect, createFault, saveFault, ev2)

\* a slip: a selection of one item let through
SelectionTooSmallOffByOne(selection) == Len(selection) < 1

\* line 186: selection.size < 2
SelectionTooSmall(selection) == Len(selection) < 2

\* lines 157-252, the try block of createGroupFromSelection
TryCreateGroup(view, cur, createFault, saveFault) ==
    CASE view.kind = "null" ->
           Res(showNotice(cur, Msg("No active canvas found")), "none", "NoActiveSurface")
      [] view.kind = "noCanvas" ->
           Res(showNotice(cur, Msg("Canvas object not available")), "none", "NoCanvas")
      [] view.kind = "noApi" ->
           Res(showNotice(cur,
                   Msg("Canvas grouping API not available. Please update Obsidian."))
                 \o log(cur, Msg("createGroupNode method not found on canvas object")),
               "none", "ApiUnavailable")
      [] view.kind = "noSelection" ->
           Res(showNotice(cur, Msg("No selection available")), "none", "NoSelection")
      [] OTHER ->
           IF SelectionTooSmall(view.selection)
           THEN Res(showNotice(cur, Msg("Please select at least 2 items to create a group")),
                    "none", "InsufficientSelection")
           ELSE Geometry(view, cur, createFault, saveFault)

\* lines 249-251: the catch of createGroupFromSelection, given what its try
\* block did and what handleError does with the value thrown
CatchCreateGroup(t, h) ==
    IF t.ex = "none" THEN t ELSE Res(t.ev \o h.ev, h.ex, "Fault")

\* createGroupFromSelection(canvasView): the try block, and its catch
createGroupFromSelection(view, cur, createFault, saveFault) ==
    CatchCreateGroup(
        TryCreateGroup(view, cur, createFault, saveFault),
        handleError(cur, "Failed to create group from selection",
                    TryCreateGroup(view, cur, createFault, saveFault).ex))

\* a slip: checkCallback without its try and catch
CatchCommandMissing(r, h) ==
    [ev |-> r.ev, outcome |-> r.outcome,
     returned |-> IF r.ex = "none" THEN "true" ELSE "threw"]

\* lines 43-48: the command has run (r); the catch of checkCallback handles
\* what it threw (h). returned is "true", "false", or "threw" when an
\* exception leaves the callback
CatchCommand(r, h) ==
    IF r.ex = "none"
    THEN [ev |-> r.ev, outcome |-> r.outcome, returned |-> "true"]
    ELSE [ev |-> r.ev \o h.ev, outcome |-> "Fault",
          returned |-> IF h.ex = "none" THEN "false" ELSE "threw"]

\* lines 37-48, once the active canvas view is known
CheckOrRun(checking, canvasView, cur, createFault, saveFault) ==
    IF checking
    THEN [ev |-> <<>>, outcome |-> "Checked",
          returned |-> IF canvasView.kind # "null" THEN "true" ELSE "false"]
    ELSE CatchCommand(
             createGroupFromSelection(canvasView, cur, createFault, saveFault),
             handleError(cur, "Command execution failed",
                 createGroupFromSelection(canvasView, cur, createFault, saveFault).ex))

\* the command's checkCallback, lines 32-49
checkCallback(checking, canvasLeaves, cur, createFault, saveFault) ==
    CheckOrRun(checking, getActiveCanvasView(canvasLeaves), cur, createFault, saveFault)

\* ------------------------------------------------------------------ state
VARIABLES
    settings,   \* this.settings
    data,       \* data.json, what loadData() reads and saveData() writes
    view,       \* the canvas view the running command found
    run,        \* the running command: its events, return point and result
    pc,         \* "idle", or "done" when a call has run and not yet returned
    pnode,      \* isValidNode's argument and result
    pvalid,
    pnodes,     \* calculateBoundingBox's argument and result
    pbox

vars == <<settings, data, view, run, pc, pnode, pvalid, pnodes, pbox>>

NoRun == [ev |-> <<>>, outcome |-> "none", returned |-> "none"]
NoNodes == [hasNodes |-> FALSE, nodes |-> <<>>]

\* ----------------------------------------------------------------- inputs
NodeA == Node(Num(0), Num(0), Num(50), Num(50))
NodeB == Node(Num(100), Num(0), Num(50), Num(50))
NodeC == Node(Num(0), Num(100), Num(50), Num(50))
NodeD == Node(Num(-30), Num(-40), Num(10), Num(10))
ZeroWidth == Node(Num(0), Num(0), Num(0), Num(50))
NoX == Node(Undefined, Num(0), Num(50), Num(50))
NaNX == Node(NaN, Num(0), Num(50), Num(50))
InfWidth == Node(Num(0), Num(0), PosInf, Num(50))
Huge == Node(Num(MaxNum), Num(0), Num(MaxNum), Num(50))

SeqsUpTo(S, n) == UNION {[1..k -> S] : k \in 0..n}

\* the selections a command runs on
SelNodes == {NodeA, NodeB, ZeroWidth, NaNX}
Selections == SeqsUpTo(SelNodes, MaxSel)
Views ==
    {View(k, FALSE, <<>>) : k \in {"noCanvas", "noApi", "noSelection"}}
        \cup {View("ok", h, s) : h \in BOOLEAN, s \in Selections}
LeafSeqs ==
    {<<>>, <<NoViewLeaf>>}
        \cup {<<Leaf(v)>> : v \in Views}
        \cup {<<NoViewLeaf, Leaf(v)>> : v \in {w \in Views : Len(w.selection) < 2}}
Faults == {"none", "Error", "null"}
\* requestSave is reached only if createGroupNode returned
FaultPairs == {f \in Faults \X Faults : f[1] = "none" \/ f[2] = "none"}

\* what data.json may hold when it was not written by saveData: a padding
\* alone, or a padding beside the settings last saved
StoredPaddings == {Num(0), Num(-MaxNum), Words}
PaddingOnly(p) ==
    [saved |-> TRUE, keys |-> {"padding"}, obj |-> [DEFAULT_SETTINGS EXCEPT !.padding = p]]
PaddingEdited(stored, p) ==
    [saved |-> TRUE, keys |-> stored.keys \cup {"padding"},
     obj |-> [stored.obj EXCEPT !.padding = p]]
\* what is typed into the padding field
PaddingTexts ==
    {Text(FALSE, FALSE, 0), Text(FALSE, TRUE, 10), Text(TRUE, TRUE, 5),
     Text(FALSE, TRUE, MaxNum + 1)}
Labels == {"", "Group"}

\* the arguments isValidNode and calculateBoundingBox are tried on
FieldValues ==
    {Undefined, Str(5), NaN, PosInf, NegInf, Num(-5), Num(0), Num(5)}
ProbeNodes ==
    {NullNode} \cup
    {Node(x, y, w, h) : x \in FieldValues, y \in FieldValues,
                        w \in FieldValues, h \in FieldValues}
CalcNodes ==
    {NodeA, NodeB, NodeC, NodeD, ZeroWidth, NoX, NaNX, InfWidth, Huge, NullNode}

\* ---------------------------------------------------------------- actions
Init ==
    /\ settings = DEFAULT_SETTINGS
    /\ data = NoData
    /\ view = NullView
    /\ run = NoRun
    /\ pc = "idle"
    /\ pnode = NullNode
    /\ pvalid = FALSE
    /\ pnodes = NoNodes
    /\ pbox = NoBox

\* the host runs the command (checking = false)
Command(canvasLeaves, createFault, saveFault) ==
    /\ pc = "idle"
    /\ view' = getActiveCanvasView(canvasLeaves)
    /\ run' = checkCallback(FALSE, canvasLeaves, settings, createFault, saveFault)
    /\ pc' = "done"
    /\ UNCHANGED <<settings, data, pnode, pvalid, pnodes, pbox>>

\* the host asks whether the command is available (checking = true)
CheckAvailability(canvasLeaves) ==
    /\ pc = "idle"
    /\ view' = getActiveCanvasView(canvasLeaves)
    /\ run' = checkCallback(TRUE, canvasLeaves, settings, "none", "none")
    /\ pc' = "done"
    /\ UNCHANGED <<settings, data, pnode, pvalid, pnodes, pbox>>

\* the call returns to its caller
Return ==
    /\ pc = "done"
    /\ pc' = "idle"
    /\ view' = NullView
    /\ run' = NoRun
    /\ pnode' = NullNode
    /\ pvalid' = FALSE
    /\ pnodes' = NoNodes
    /\ pbox' = NoBox
    /\ UNCHANGED <<settings, data>>

\* onload's loadSettings(): data.json as saveData left it, or as something
\* else wrote it
LoadSettings(stored) ==
    /\ pc = "idle"
    /\ data' = stored
    /\ settings' = loadSettings(stored)
    /\ UNCHANGED <<view, run, pc, pnode, pvalid, pnodes, pbox>>

\* the settings tab's four onChange handlers
ChangePadding(value) ==
    /\ pc = "idle"
    /\ LET r == onChangePadding(settings, value)
       IN  /\ settings' = r.settings
           /\ data' = IF r.changed THEN saveData(r.settings) ELSE data
    /\ UNCHANGED <<view, run, pc, pnode, pvalid, pnodes, pbox>>

ChangeLabel(value) ==
    /\ pc = "idle"
    /\ settings' = [settings EXCEPT !.defaultLabel = value]
    /\ data' = saveData(settings')
    /\ UNCHANGED <<view, run, pc, pnode, pvalid, pnodes, pbox>>

ChangeShowNotices(value) ==
    /\ pc = "idle"
    /\ settings' = [settings EXCEPT !.showNotices = value]
    /\ data' = saveData(settings')
    /\ UNCHANGED <<view, run, pc, pnode, pvalid, pnodes, pbox>>

ChangeDebugMode(value) ==
    /\ pc = "idle"
    /\ settings' = [settings EXCEPT !.debugMode = value]
    /\ data' = saveData(settings')
    /\ UNCHANGED <<view, run, pc, pnode, pvalid, pnodes, pbox>>

Next ==
    \/ \E l \in LeafSeqs, f \in FaultPairs : Command(l, f[1], f[2])
    \/ \E l \in LeafSeqs : CheckAvailability(l)
    \/ Return
    \/ \E p \in StoredPaddings : LoadSettings(PaddingOnly(p))
    \/ \E p \in StoredPaddings : LoadSettings(PaddingEdited(data, p))
    \/ LoadSettings(data)
    \/ \E t \in PaddingTexts : ChangePadding(t)
    \/ \E l \in Labels : ChangeLabel(l)
    \/ \E b \in BOOLEAN : ChangeShowNotices(b)
    \/ \E b \in BOOLEAN : ChangeDebugMode(b)

Spec == Init /\ [][Next]_vars

\* the two pure functions, applied to the arguments above
Validate(node) ==
    /\ pc = "idle"
    /\ pnode' = node
    /\ pvalid' = isValidNode(node)
    /\ pc' = "done"
    /\ UNCHANGED <<settings, data, view, run, pnodes, pbox>>

Calculate(hasNodes, nodes) ==
    /\ pc = "idle"
    /\ pnodes' = [hasNodes |-> hasNodes, nodes |-> nodes]
    /\ pbox' = calculateBoundingBox(hasNodes, nodes)
    /\ pc' = "done"
    /\ UNCHANGED <<settings, data, view, run, pnode, pvalid>>

NextCalc ==
    \/ \E n \in ProbeNodes : Validate(n)
    \/ \E s \in SeqsUpTo(CalcNodes, MaxNodes) : Calculate(TRUE, s)
    \/ Calculate(FALSE, <<>>)
    \/ Return

SpecCalc == Init /\ [][NextCalc]_vars

\* ---------------------------------------------------- vocabulary of claims
\* a finite number, and a node valid as the data model defines it: finite
\* x, y, width and height with width > 0 and height > 0
Finite(a) == a.t = "number"
ValidNode(node) ==
    /\ ~node.isNull
    /\ Finite(node.x) /\ Finite(node.y) /\ Finite(node.width) /\ Finite(node.height)
    /\ node.width.v > 0 /\ node.height.v > 0

SetMin(S) == CHOOSE m \in S : \A k \in S : m <= k
SetMax(S) == CHOOSE m \in S : \A k \in S : m >= k
Range(s) == {s[i] : i \in 1..Len(s)}
Orders(n) == {f \in [1..n -> 1..n] : \A i \in 1..n : \E j \in 1..n : f[j] = i}
Permuted(s, f) == [i \in 1..Len(s) |-> s[f[i]]]

\* the events of the running command that are calls of op
Calls(op) == {i \in 1..Len(run.ev) : run.ev[i].op = op}
\* a command (not an availability check) has run and not yet returned
Ran == pc = "done" /\ run.outcome \notin {"none", "Checked"}
Rejections ==
    {"NoActiveSurface", "NoCanvas", "ApiUnavailable", "NoSelection",
     "InsufficientSelection", "NoValidNodes", "BoundsUnavailable", "InvalidDimensions"}

\* ------------------------------------------------------------------- C1
\* C1: isValidNode returns true if and only if the node is non-null and its
\* x, y, width and height are finite numbers with width > 0 and height > 0.
\* Violated: the typeof tests accept NaN and +-Infinity for x and y, and
\* +Infinity for width and height.
C1_ValidIffFinitePositive == pvalid = ValidNode(pnode)

\* ------------------------------------------------------------------- C2
\* the true bounds of a set of valid nodes
TrueMinX(V) == SetMin({n.x.v : n \in V})
TrueMinY(V) == SetMin({n.y.v : n \in V})
TrueMaxX(V) == SetMax({n.x.v + n.width.v : n \in V})
TrueMaxY(V) == SetMax({n.y.v + n.height.v : n \in V})
\* the argument calculateBoundingBox ran on holds a valid node, and every
\* other node of it is one isValidNode rejects
C2_Case ==
    /\ pc = "done" /\ pnodes.hasNodes
    /\ \E i \in 1..Len(pnodes.nodes) : ValidNode(pnodes.nodes[i])
    /\ \A i \in 1..Len(pnodes.nodes) :
          ValidNode(pnodes.nodes[i]) \/ ~isValidNode(pnodes.nodes[i])
C2_Valid == {n \in Range(pnodes.nodes) : ValidNode(n)}
C2_TrueBox ==
    Box(Num(TrueMinX(C2_Valid)), Num(TrueMinY(C2_Valid)),
        Num(TrueMaxX(C2_Valid)), Num(TrueMaxY(C2_Valid)))
C2_PermutationInvariant ==
    \A f \in Orders(Len(pnodes.nodes)) :
        calculateBoundingBox(pnodes.hasNodes, Permuted(pnodes.nodes, f)) = pbox

\* C2 as claimed: for every collection with a valid node, calculateBoundingBox
\* returns the box of min(x), min(y), max(x + width), max(y + height) over the
\* valid nodes, with minX <= maxX and minY <= maxY, whatever the order.
\* Violated: when x + width or y + height overflows the result is null.
C2_AlwaysTheBox ==
    C2_Case =>
        /\ pbox = C2_TrueBox
        /\ C2_PermutationInvariant

\* C2 as amended: the result is null when max(x + width) or max(y + height)
\* is beyond the largest finite number, and otherwise the box of the valid
\* nodes, with minX <= maxX and minY <= maxY; the result is the same for
\* every permutation of the argument.
C2_TheBoxUnlessOverflow ==
    /\ C2_Case =>
          IF TrueMaxX(C2_Valid) > MaxNum \/ TrueMaxY(C2_Valid) > MaxNum
          THEN pbox.isNull
          ELSE /\ pbox = C2_TrueBox
               /\ pbox.minX.v <= pbox.maxX.v /\ pbox.minY.v <= pbox.maxY.v
    /\ C2_PermutationInvariant

\* three nodes, two valid ones apart and an invalid one between, boxed
C2_Witness ==
    /\ C2_Case /\ ~pbox.isNull
    /\ Len(pnodes.nodes) = 3
    /\ pnodes.nodes[1] = NodeB /\ pnodes.nodes[2] = ZeroWidth /\ pnodes.nodes[3] = NodeD

\* ------------------------------------------------------------------- C3
\* C3: calculateBoundingBox returns null when its argument is empty or holds
\* no valid node, and every box it returns has four finite bounds.
C3_NullOrFinite ==
    /\ (\A i \in 1..Len(pnodes.nodes) : ~ValidNode(pnodes.nodes[i])) => pbox.isNull
    /\ ~pbox.isNull =>
          Finite(pbox.minX) /\ Finite(pbox.minY) /\ Finite(pbox.maxX) /\ Finite(pbox.maxY)

\* invalid nodes only, one of them let through by isValidNode: null
C3_Witness ==
    /\ pc = "done" /\ pnodes.hasNodes /\ Len(pnodes.nodes) >= 2
    /\ \A i \in 1..Len(pnodes.nodes) : ~ValidNode(pnodes.nodes[i])
    /\ \E i \in 1..Len(pnodes.nodes) : isValidNode(pnodes.nodes[i])
    /\ pbox.isNull

\* ------------------------------------------------------------------- C4
\* the nodes of the selection the command kept, and their bounds
C4_Bounds == BoundsOf(SelectSeq(view.selection, isValidNode))
C4_Width == Add(Sub(C4_Bounds.maxX, C4_Bounds.minX), Times2(settings.padding))
C4_Height == Add(Sub(C4_Bounds.maxY, C4_Bounds.minY), Times2(settings.padding))

\* C4: the rectangle handed to createGroupNode has x = minX - padding,
\* y = minY - padding, width = (maxX - minX) + 2*padding, height =
\* (maxY - minY) + 2*padding, with width > 0 and height > 0, and carries the
\* configured label; with a computed width or height <= 0 no group is made.
\* Violated: a padding that is no number makes width and height NaN, which
\* the test width <= 0 || height <= 0 lets through.
C4_GroupRectangle ==
    Ran =>
        /\ \A i \in Calls("createGroupNode") :
              LET r == run.ev[i].rect
              IN  /\ r.x = Sub(C4_Bounds.minX, settings.padding)
                  /\ r.y = Sub(C4_Bounds.minY, settings.padding)
                  /\ r.width = C4_Width
                  /\ r.height = C4_Height
                  /\ Gt(r.width, Num(0)) /\ Gt(r.height, Num(0))
                  /\ r.label = settings.defaultLabel
        /\ (/\ view.kind = "ok" /\ Len(view.selection) >= 2
            /\ ~C4_Bounds.isNull
            /\ (Le(C4_Width, Num(0)) \/ Le(C4_Height, Num(0))))
              => Calls("createGroupNode") = {}

\* ------------------------------------------------------------------- C5
\* C5: run on a selection of fewer than 2 items, the command rejects with the
\* insufficient-selection outcome before any node is validated or any
\* bounding box computed, and neither createGroupNode nor requestSave is
\* called.
C5_InsufficientSelectionFirst ==
    (Ran /\ view.kind = "ok" /\ Len(view.selection) < 2) =>
        /\ run.outcome = "InsufficientSelection"
        /\ Calls("filter isValidNode") = {}
        /\ Calls("calculateBoundingBox") = {}
        /\ Calls("createGroupNode") = {}
        /\ Calls("requestSave") = {}
        /\ \A i \in Calls("showNotice") :
              run.ev[i].msg.text = "Please select at least 2 items to create a group"

\* the command has run on a selection of one valid node
C5_Witness ==
    /\ Ran /\ view.kind = "ok"
    /\ view.selection = <<NodeA>>
    /\ run.outcome = "InsufficientSelection"

\* ------------------------------------------------------------------- C6
C6_Valid == SelectSeq(view.selection, ValidNode)

\* C6: invalid nodes are left out of the selection instead of failing the
\* command: with fewer than 2 valid nodes the outcome is no-valid-nodes and
\* no group is made; with 2 or more the command does not fail for the
\* invalid ones, and a group made has the rectangle of the valid nodes only.
\* Violated: a node with a NaN or infinite coordinate passes isValidNode (C1)
\* and the command then fails with bounds-unavailable.
C6_InvalidNodesExcluded ==
    (Ran /\ view.kind = "ok" /\ Len(view.selection) >= 2) =>
        /\ Len(C6_Valid) < 2 =>
              /\ run.outcome = "NoValidNodes"
              /\ Calls("createGroupNode") = {}
        /\ Len(C6_Valid) >= 2 =>
              /\ run.outcome \notin {"NoValidNodes", "BoundsUnavailable"}
              /\ \A i \in Calls("createGroupNode") :
                    run.ev[i].rect
                        = GroupRect(BoundsOf(C6_Valid), settings.padding,
                                    settings.defaultLabel)

\* ------------------------------------------------------------------- C7
C7_SaveAfterCreate ==
    \A i \in Calls("requestSave") : \E j \in Calls("createGroupNode") : j < i
C7_NothingOnRejection ==
    (Ran /\ run.outcome \in Rejections) =>
        Calls("createGroupNode") = {} /\ Calls("requestSave") = {}

\* C7 as claimed: on success createGroupNode is called exactly once and then
\* requestSave; requestSave never precedes createGroupNode; on every
\* rejection neither is called.
\* Violated: a canvas without a requestSave function gets no save request.
C7_CreateThenSave ==
    /\ (Ran /\ run.outcome = "Success") =>
          /\ Cardinality(Calls("createGroupNode")) = 1
          /\ Cardinality(Calls("requestSave")) = 1
    /\ C7_SaveAfterCreate
    /\ C7_NothingOnRejection

\* C7 as amended: on success createGroupNode is called exactly once and
\* then, if the canvas has a requestSave function, requestSave once (not at
\* all otherwise); requestSave never precedes createGroupNode; on every
\* rejection neither is called.
C7_CreateThenSaveIfOffered ==
    /\ (Ran /\ run.outcome = "Success") =>
          /\ Cardinality(Calls("createGroupNode")) = 1
          /\ Cardinality(Calls("requestSave")) = IF view.hasRequestSave THEN 1 ELSE 0
    /\ C7_SaveAfterCreate
    /\ C7_NothingOnRejection

\* a group made and saved on a canvas that offers requestSave
C7_Witness ==
    /\ Ran /\ run.outcome = "Success" /\ view.hasRequestSave
    /\ Calls("createGroupNode") # {} /\ Calls("requestSave") # {}

\* ------------------------------------------------------------------- C8
\* the reasons of each return point, as the notices word them
ReasonTexts(outcome) ==
    CASE outcome = "NoActiveSurface" -> {"No active canvas found"}
      [] outcome = "NoCanvas" -> {"Canvas object not available"}
      [] outcome = "ApiUnavailable" ->
           {"Canvas grouping API not available. Please update Obsidian."}
      [] outcome = "NoSelection" -> {"No selection available"}
      [] outcome = "InsufficientSelection" ->
           {"Please select at least 2 items to create a group"}
      [] outcome = "NoValidNodes" ->
           {"Selected items are not valid canvas nodes",
            "Only ${n} valid node(s) selected. Need at least 2."}
      [] outcome = "BoundsUnavailable" ->
           {"Unable to calculate bounds for selected nodes"}
      [] outcome = "InvalidDimensions" -> {"Invalid group dimensions calculated"}
      [] outcome = "Success" -> {"Group created with ${n} node(s)"}
      [] OTHER -> {}

\* C8: each rejection hands showNotice exactly one reason, that of its own
\* return point, and the reasons of different return points and of success
\* differ; the notice is displayed if and only if showNotices is on.
C8_OneDistinctReason ==
    /\ \A o1 \in Rejections \cup {"Success"} : \A o2 \in Rejections \cup {"Success"} :
          o1 # o2 => ReasonTexts(o1) \cap ReasonTexts(o2) = {}
    /\ (Ran /\ run.outcome \in Rejections \cup {"Success"}) =>
          /\ Cardinality(Calls("showNotice")) = 1
          /\ \A i \in Calls("showNotice") :
                run.ev[i].msg.text \in ReasonTexts(run.outcome)
          /\ Cardinality(Calls("Notice")) = IF settings.showNotices THEN 1 ELSE 0

\* the invalid-dimensions rejection, its notice displayed
C8_Witness ==
    /\ Ran /\ run.outcome = "InvalidDimensions"
    /\ Calls("Notice") # {}

\* ------------------------------------------------------------------- C9
\* C9: no exception leaves checkCallback: a fault of createGroupNode or
\* requestSave, and a fault of handleError handling it, is caught; the
\* callback returns true or false, and the fault is handed to showNotice
\* once as a failure reason (displayed if showNotices is on).
C9_NoExceptionEscapes ==
    Ran =>
        /\ run.returned \in {"true", "false"}
        /\ run.outcome = "Fault" =>
              /\ Cardinality(Calls("showNotice")) = 1
              /\ \A i \in Calls("showNotice") :
                    /\ run.ev[i].msg.text \in
                          {"Failed to create group from selection",
                           "Command execution failed"}
                    /\ run.ev[i].msg.detail # ""
              /\ Cardinality(Calls("Notice")) = IF settings.showNotices THEN 1 ELSE 0

\* createGroupNode threw a value without a message, handleError faulted on
\* it, and checkCallback's catch reported that and returned false
C9_Witness ==
    /\ Ran /\ run.outcome = "Fault" /\ run.returned = "false"
    /\ Calls("createGroupNode") # {}
    /\ \E i \in Calls("showNotice") : run.ev[i].msg.text = "Command execution failed"

\* ------------------------------------------------------------------ C10
\* C10: the configured padding is a non-negative integer in every reachable
\* state, so no command reaches the invalid-dimensions rejection.
\* Violated: loadSettings takes whatever padding data.json holds, and the
\* padding field accepts a number too large to be finite.
C10_PaddingNonNegativeInteger ==
    /\ settings.padding.t = "number" /\ settings.padding.v >= 0
    /\ Ran => run.outcome # "InvalidDimensions"

====
